---------------------------- MODULE Spec2Model ----------------------------
(***************************************************************************)
(* Model of the Superstore dashboard script (src/app.py).                  *)
(*                                                                         *)
(* The script is a Streamlit page: every user interaction with a widget    *)
(* re-runs the whole file top to bottom with the widgets returning their   *)
(* stored values.  One action of the model is one such rerun; the          *)
(* VARIABLES are the script's module-level names as they stand at the end  *)
(* of the run, plus the widget values Streamlit keeps between runs.        *)
(*                                                                         *)
(* Abstractions:                                                           *)
(*  - a DataFrame is the set of its rows; every row carries its index      *)
(*    label (idx), so boolean indexing is set comprehension;               *)
(*  - an order date is a day number (the sheet holds dates without a time  *)
(*    of day), a month is MonthLen consecutive days;                       *)
(*  - a float is an exact rational <<n, d>> in lowest terms (rounding is   *)
(*    not modelled); NaN / NaT is the empty sequence <<>>, a present       *)
(*    value v is <<v>>.                                                    *)
(***************************************************************************)
EXTENDS Integers, Sequences, FiniteSets, TLC

(***************************************************************************)
(* Bounds of the model.                                                    *)
(***************************************************************************)
\* Largest number of rows the Orders sheet holds.
MaxRows == 3
\* Days per calendar month of the model's calendar.
MonthLen == 2

(***************************************************************************)
(* Exact rationals standing for Python floats.                             *)
(***************************************************************************)
Abs(x) == IF x < 0 THEN 0 - x ELSE x

RECURSIVE GCD(_, _)
GCD(a, b) == IF b = 0 THEN a ELSE GCD(b, a % b)

\* n / d in lowest terms with a positive denominator (d # 0).
Frac(n, d) ==
    LET g == GCD(Abs(n), Abs(d))
        s == IF d < 0 THEN 0 - 1 ELSE 1
    IN  <<(s * n) \div g, (s * d) \div g>>

Num(i)     == <<i, 1>>
FAdd(x, y) == Frac(x[1] * y[2] + y[1] * x[2], x[2] * y[2])
FSub(x, y) == Frac(x[1] * y[2] - y[1] * x[2], x[2] * y[2])
FMul(x, y) == Frac(x[1] * y[1], x[2] * y[2])
FDiv(x, y) == Frac(x[1] * y[2], x[2] * y[1])
FLess(x, y) == x[1] * y[2] < y[1] * x[2]

RECURSIVE SumOver(_, _)
\* Series.sum(): the sum of v[r] over the rows r of S (0 for no rows).
SumOver(S, v) ==
    IF S = {} THEN Num(0)
    ELSE LET r == CHOOSE x \in S : TRUE
         IN  FAdd(v[r], SumOver(S \ {r}, v))

SetMin(S) == CHOOSE x \in S : \A y \in S : x <= y
SetMax(S) == CHOOSE x \in S : \A y \in S : x >= y

(***************************************************************************)
(* The workbook "Sample - Superstore.xlsx": candidate rows of the Orders   *)
(* sheet and the Returns sheet.  Order O1 has two line items; row 2 has a  *)
(* zero sale and an unparseable ship date; the District of Columbia has    *)
(* no state code.                                                          *)
(***************************************************************************)
OrdersPool ==
    { [idx |-> 0, OrderID |-> "O1", OrderDate |-> 1, ShipDate |-> <<3>>,
       Region |-> "East", State |-> "New York", Category |-> "Furniture",
       SubCategory |-> "Chairs", Segment |-> "Consumer", ProductName |-> "P1",
       Sales |-> 100, Profit |-> 20, Quantity |-> 2],
      [idx |-> 1, OrderID |-> "O1", OrderDate |-> 1, ShipDate |-> <<3>>,
       Region |-> "East", State |-> "New York", Category |-> "Technology",
       SubCategory |-> "Phones", Segment |-> "Consumer", ProductName |-> "P2",
       Sales |-> 50, Profit |-> 0 - 10, Quantity |-> 1],
      [idx |-> 2, OrderID |-> "O2", OrderDate |-> 3, ShipDate |-> <<>>,
       Region |-> "West", State |-> "California", Category |-> "Furniture",
       SubCategory |-> "Chairs", Segment |-> "Consumer", ProductName |-> "P1",
       Sales |-> 0, Profit |-> 5, Quantity |-> 1],
      [idx |-> 3, OrderID |-> "O3", OrderDate |-> 4, ShipDate |-> <<5>>,
       Region |-> "West", State |-> "California", Category |-> "Technology",
       SubCategory |-> "Phones", Segment |-> "Corporate", ProductName |-> "P3",
       Sales |-> 200, Profit |-> 50, Quantity |-> 3],
      [idx |-> 4, OrderID |-> "O4", OrderDate |-> 5, ShipDate |-> <<9>>,
       Region |-> "East", State |-> "District of Columbia",
       Category |-> "Furniture", SubCategory |-> "Tables",
       Segment |-> "Consumer", ProductName |-> "P2",
       Sales |-> 80, Profit |-> 8, Quantity |-> 4] }

ReturnsSheet == { [OrderID |-> "O1"], [OrderID |-> "O9"] }

\* The non-empty Orders sheets the model loads.
OrdersSheets ==
    { S \in SUBSET OrdersPool : Cardinality(S) >= 1 /\ Cardinality(S) <= MaxRows }

(***************************************************************************)
(* load_data                                                               *)
(***************************************************************************)
\* Profit / Sales with +-inf replaced by 0, times 100, NaN filled with 0.
MarginRate(profit, sales) ==
    IF sales = 0 THEN Num(0) ELSE FMul(Frac(profit, sales), Num(100))

\* (Ship Date - Order Date).dt.days; NaN when the ship date is NaT.
ShipmentTime(ship, order) ==
    IF ship = <<>> THEN <<>> ELSE <<ship[1] - order>>

LoadRow(o, returned_orders) ==
    [idx |-> o.idx, OrderID |-> o.OrderID, OrderDate |-> o.OrderDate,
     ShipDate |-> o.ShipDate, Region |-> o.Region, State |-> o.State,
     Category |-> o.Category, SubCategory |-> o.SubCategory,
     Segment |-> o.Segment, ProductName |-> o.ProductName,
     Sales |-> o.Sales, Profit |-> o.Profit, Quantity |-> o.Quantity,
     Returned |-> IF o.OrderID \in returned_orders THEN 1 ELSE 0,
     MarginRate |-> MarginRate(o.Profit, o.Sales),
     ShipmentTime |-> ShipmentTime(o.ShipDate, o.OrderDate)]

load_data(df_orders, df_returns) ==
    LET returned_orders == { r.OrderID : r \in df_returns }
    IN  { LoadRow(o, returned_orders) : o \in df_orders }

(***************************************************************************)
(* Streamlit widgets.  The widget store keeps, per widget, the arguments   *)
(* it was created with (id) and its value.  A widget called with the same  *)
(* arguments returns its stored value; called with other arguments it is   *)
(* a new widget and returns its default.                                   *)
(***************************************************************************)
Assign(e, upd) == upd @@ e

Widget(session, name, id, default) ==
    IF session[name].id = id THEN session[name].value ELSE default

Stored(session, name, id, value) ==
    [session EXCEPT ![name] = [id |-> id, value |-> value]]

KpiOptions == {"Sales", "Profit", "Quantity", "Margin Rate"}

\* The store of a session that has not run the script yet.
FreshSession ==
    [region   |-> [id |-> {"<new>"}, value |-> "All"],
     state    |-> [id |-> {"<new>"}, value |-> "All"],
     category |-> [id |-> {"<new>"}, value |-> "All"],
     subcat   |-> [id |-> {"<new>"}, value |-> "All"],
     segment  |-> [id |-> {"<new>"}, value |-> "All"],
     from     |-> [id |-> <<0, 0>>, value |-> 0],
     to       |-> [id |-> <<0, 0>>, value |-> 0],
     kpi      |-> [id |-> {"<new>"}, value |-> "Sales"]]

(***************************************************************************)
(* Filters section: the pure parts.                                        *)
(***************************************************************************)
RegionFilter(df, selected_region) ==
    IF selected_region # "All"
    THEN { r \in df : r.Region = selected_region } ELSE df

StateFilter(df, selected_state) ==
    IF selected_state # "All"
    THEN { r \in df : r.State = selected_state } ELSE df

CategoryFilter(df, selected_category) ==
    IF selected_category # "All"
    THEN { r \in df : r.Category = selected_category } ELSE df

SubCatFilter(df, selected_subcat) ==
    IF selected_subcat # "All"
    THEN { r \in df : r.SubCategory = selected_subcat } ELSE df

SegmentFilter(df, selected_segment) ==
    IF selected_segment # "All"
    THEN { r \in df : r.Segment = selected_segment } ELSE df

\* Variant: the lower end of the range taken as exclusive.
DateFilterExclusive(df, lo, hi) ==
    { r \in df : r.OrderDate > lo /\ r.OrderDate <= hi }

\* df[(df["Order Date"] >= lo) & (df["Order Date"] <= hi)]
DateFilter(df, lo, hi) ==
    { r \in df : r.OrderDate >= lo /\ r.OrderDate <= hi }

\* Variant: an inverted pair is swapped instead of reset.
CorrectedRangeSwapped(from_date, to_date, min_date, max_date) ==
    IF from_date > to_date THEN <<to_date, from_date>>
    ELSE <<from_date, to_date>>

\* The (from_date, to_date) pair after the auto-correction.
CorrectedRange(from_date, to_date, min_date, max_date) ==
    IF from_date > to_date THEN <<min_date, max_date>>
    ELSE <<from_date, to_date>>

WarnResetFull   == "No data available for the selected filters. Resetting to full dataset."
WarnInvalidDate == "Invalid date range selected. Resetting to default range."
WarnShowFull    == "No data available for the selected filters. Showing full dataset."
WarnNoPast      == "No change detected in KPI values compared to the past period, or no past data available, resulting in a 0.0% change."

(***************************************************************************)
(* Filters section: the statements of the script, each a step on the       *)
(* script's environment e (its module-level names, the widget store and    *)
(* the warnings shown so far).                                             *)
(***************************************************************************)
StartStep(e) ==
    Assign(e, [df_filtered |-> e.df_original])

\* Variant: the region filter applied to the loaded frame in place.
RegionStepInPlace(e) ==
    LET all_regions == { r.Region : r \in e.df_original }
        selected_region == Widget(e.session, "region", all_regions, "All")
        rows == RegionFilter(e.df_original, selected_region)
    IN  Assign(e, [all_regions |-> all_regions,
                   selected_region |-> selected_region,
                   session |-> Stored(e.session, "region", all_regions, selected_region),
                   df_original |-> rows, df_filtered |-> rows])

RegionStep(e) ==
    LET all_regions == { r.Region : r \in e.df_original }
        selected_region == Widget(e.session, "region", all_regions, "All")
    IN  Assign(e, [all_regions |-> all_regions,
                   selected_region |-> selected_region,
                   session |-> Stored(e.session, "region", all_regions, selected_region),
                   df_filtered |-> RegionFilter(e.df_filtered, selected_region)])

StateStep(e) ==
    LET all_states == { r.State : r \in e.df_filtered }
        selected_state == Widget(e.session, "state", all_states, "All")
    IN  Assign(e, [all_states |-> all_states,
                   selected_state |-> selected_state,
                   session |-> Stored(e.session, "state", all_states, selected_state),
                   df_filtered |-> StateFilter(e.df_filtered, selected_state)])

CategoryStep(e) ==
    LET all_categories == { r.Category : r \in e.df_filtered }
        selected_category == Widget(e.session, "category", all_categories, "All")
    IN  Assign(e, [all_categories |-> all_categories,
                   selected_category |-> selected_category,
                   session |-> Stored(e.session, "category", all_categories, selected_category),
                   df_filtered |-> CategoryFilter(e.df_filtered, selected_category)])

SubCatStep(e) ==
    LET all_subcats == { r.SubCategory : r \in e.df_filtered }
        selected_subcat == Widget(e.session, "subcat", all_subcats, "All")
    IN  Assign(e, [all_subcats |-> all_subcats,
                   selected_subcat |-> selected_subcat,
                   session |-> Stored(e.session, "subcat", all_subcats, selected_subcat),
                   df_filtered |-> SubCatFilter(e.df_filtered, selected_subcat)])

SegmentStep(e) ==
    LET all_segments == { r.Segment : r \in e.df_filtered }
        selected_segment == Widget(e.session, "segment", all_segments, "All")
    IN  Assign(e, [all_segments |-> all_segments,
                   selected_segment |-> selected_segment,
                   session |-> Stored(e.session, "segment", all_segments, selected_segment),
                   df_filtered |-> SegmentFilter(e.df_filtered, selected_segment)])

\* if df_filtered.empty: warn, df_filtered = df_original.copy()
EmptyResetStep(e) ==
    IF e.df_filtered = {}
    THEN Assign(e, [warnings |-> e.warnings \cup {WarnResetFull},
                    df_filtered |-> e.df_original])
    ELSE e

DateInputStep(e) ==
    LET dates == { r.OrderDate : r \in e.df_filtered }
        min_date == SetMin(dates)
        max_date == SetMax(dates)
        from_date == Widget(e.session, "from", <<min_date, max_date>>, min_date)
        to_date == Widget(e.session, "to", <<min_date, max_date>>, max_date)
    IN  Assign(e, [min_date |-> min_date, max_date |-> max_date,
                   from_date |-> from_date, to_date |-> to_date,
                   session |-> Stored(Stored(e.session, "from", <<min_date, max_date>>, from_date),
                                      "to", <<min_date, max_date>>, to_date)])

DateCorrectStep(e) ==
    IF e.from_date > e.to_date
    THEN LET c == CorrectedRange(e.from_date, e.to_date, e.min_date, e.max_date)
         IN  Assign(e, [warnings |-> e.warnings \cup {WarnInvalidDate},
                        from_date |-> c[1], to_date |-> c[2]])
    ELSE e

DateFilterStep(e) ==
    Assign(e, [df_filtered |-> DateFilter(e.df_filtered, e.from_date, e.to_date)])

\* Variant: the warning is shown but the empty frame is kept.
ShowFullStepKeepEmpty(e) ==
    IF e.df_filtered = {}
    THEN Assign(e, [warnings |-> e.warnings \cup {WarnShowFull}])
    ELSE e

\* Handle Empty Dataset After Filters
ShowFullStep(e) ==
    IF e.df_filtered = {}
    THEN Assign(e, [warnings |-> e.warnings \cup {WarnShowFull},
                    df_filtered |-> e.df_original])
    ELSE e

\* The five categorical restrictions, in the order the script applies them.
CategoricalFilters(df, c) ==
    SegmentFilter(SubCatFilter(CategoryFilter(StateFilter(RegionFilter(
        df, c.region), c.state), c.category), c.subcat), c.segment)

\* The filters section and the empty-frame fallback after it as a function of
\* the frame it starts from and the values c the widgets return.
FilterStage(df, c) ==
    LET cat == CategoricalFilters(df, c)
        kept == IF cat = {} THEN df ELSE cat
        dates == { r.OrderDate : r \in kept }
        range == CorrectedRange(c.from, c.to, SetMin(dates), SetMax(dates))
        dated == DateFilter(kept, range[1], range[2])
    IN  IF dated = {} THEN df ELSE dated

FiltersSection(e) ==
    ShowFullStep(DateFilterStep(DateCorrectStep(DateInputStep(EmptyResetStep(
        SegmentStep(SubCatStep(CategoryStep(StateStep(RegionStep(StartStep(e)))))))))))

(***************************************************************************)
(* compute_kpis and calc_percentage_change                                 *)
(***************************************************************************)
Zero == Num(0)

ZeroKpis ==
    [total_sales |-> Zero, avg_order_value |-> Zero, total_orders |-> Zero,
     total_profit |-> Zero, profit_margin |-> Zero, avg_shipment_time |-> Zero]

\* Variant: the number of rows instead of the number of distinct orders.
RowCount(df) == Cardinality(df)

\* df["Order ID"].nunique()
NUnique(df) == Cardinality({ r.OrderID : r \in df })

\* df["Shipment Time"].mean(), NaN rows skipped; NaN (here <<>>) if none is left.
MeanShipmentTime(df) ==
    LET known == { r \in df : r.ShipmentTime # <<>> }
    IN  IF known = {} THEN <<>>
        ELSE <<FDiv(SumOver(known, [r \in known |-> Num(r.ShipmentTime[1])]),
                    Num(Cardinality(known)))>>

compute_kpis(df) ==
    IF df = {} THEN ZeroKpis
    ELSE LET total_sales == SumOver(df, [r \in df |-> Num(r.Sales)])
             total_profit == SumOver(df, [r \in df |-> Num(r.Profit)])
             total_orders == NUnique(df)
             avg_order_value == IF total_orders > 0
                                THEN FDiv(total_sales, Num(total_orders)) ELSE Zero
             profit_margin == IF FLess(Zero, total_sales)
                              THEN FMul(FDiv(total_profit, total_sales), Num(100))
                              ELSE Zero
             mean == MeanShipmentTime(df)
             avg_shipment_time == IF mean # <<>> THEN mean[1] ELSE Zero
         IN  [total_sales |-> total_sales, avg_order_value |-> avg_order_value,
              total_orders |-> Num(total_orders), total_profit |-> total_profit,
              profit_margin |-> profit_margin,
              avg_shipment_time |-> avg_shipment_time]

calc_percentage_change(current, past) ==
    IF past = Zero THEN Zero
    ELSE FMul(FDiv(FSub(current, past), past), Num(100))

KpiNames ==
    {"total_sales", "avg_order_value", "total_orders", "total_profit",
     "profit_margin", "avg_shipment_time"}

(***************************************************************************)
(* Period comparison: the statements after the filters section.           *)
(***************************************************************************)
\* date_range_days, past_start_date, past_end_date
PastPeriodStep(e) ==
    LET date_range_days == e.to_date - e.from_date
    IN  Assign(e, [date_range_days |-> date_range_days,
                   past_start_date |-> e.from_date - date_range_days,
                   past_end_date |-> e.to_date - date_range_days])

CurrentStep(e) ==
    Assign(e, [df_current |-> DateFilter(e.df_filtered, e.from_date, e.to_date)])

\* Variant: only the upper end of the past window is validated.
PastValidateStepUpperOnly(e) ==
    LET dates == { r.OrderDate : r \in e.df_original }
        df_min_date == SetMin(dates)
        df_max_date == SetMax(dates)
    IN  Assign(e, [df_min_date |-> df_min_date, df_max_date |-> df_max_date,
                   df_past |-> IF e.past_end_date > df_max_date
                               THEN {}
                               ELSE DateFilter(e.df_original, e.past_start_date,
                                               e.past_end_date)])

\* Validate Past Date Range
PastValidateStep(e) ==
    LET dates == { r.OrderDate : r \in e.df_original }
        df_min_date == SetMin(dates)
        df_max_date == SetMax(dates)
    IN  Assign(e, [df_min_date |-> df_min_date, df_max_date |-> df_max_date,
                   df_past |-> IF e.past_start_date < df_min_date
                                  \/ e.past_end_date > df_max_date
                               THEN {}
                               ELSE DateFilter(e.df_original, e.past_start_date,
                                               e.past_end_date)])

\* Apply the same filters as df_filtered
PastFilterStep(e) ==
    Assign(e, [df_past |->
        SegmentFilter(SubCatFilter(CategoryFilter(StateFilter(RegionFilter(
            e.df_past, e.selected_region), e.selected_state),
            e.selected_category), e.selected_subcat), e.selected_segment)])

KpiStep(e) ==
    LET past_data_available == e.df_past # {}
    IN  Assign(e, [past_data_available |-> past_data_available,
                   kpis |-> compute_kpis(e.df_current),
                   past_kpis |-> IF past_data_available
                                 THEN compute_kpis(e.df_past) ELSE ZeroKpis])

ChangeStep(e) ==
    Assign(e, [changes |->
        [k \in KpiNames |-> calc_percentage_change(e.kpis[k], e.past_kpis[k])]])

\* Show Warning If No Past Data Exists
NoPastWarningStep(e) ==
    IF ~e.past_data_available
    THEN Assign(e, [warnings |-> e.warnings \cup {WarnNoPast}])
    ELSE e

ComparisonSection(e) ==
    NoPastWarningStep(ChangeStep(KpiStep(PastFilterStep(PastValidateStep(
        CurrentStep(PastPeriodStep(e)))))))

(***************************************************************************)
(* Visualization section                                                   *)
(***************************************************************************)
KpiRadioStep(e) ==
    LET selected_kpi == Widget(e.session, "kpi", KpiOptions, "Sales")
    IN  Assign(e, [selected_kpi |-> selected_kpi,
                   session |-> Stored(e.session, "kpi", KpiOptions, selected_kpi)])

\* The column df[selected_kpi] as a function of the row.
Column(df, selected_kpi) ==
    [r \in df |-> CASE selected_kpi = "Sales"    -> Num(r.Sales)
                    [] selected_kpi = "Profit"   -> Num(r.Profit)
                    [] selected_kpi = "Quantity" -> Num(r.Quantity)
                    [] OTHER                     -> r.MarginRate]

\* The calendar month a day falls in.
Month(day) == (day - 1) \div MonthLen

\* Variant: one bin per day (freq="D"), labelled with the day's month.
DailySum(df, selected_kpi) ==
    IF df = {} THEN <<>>
    ELSE LET days == { r.OrderDate : r \in df }
             first == SetMin(days)
             last == SetMax(days)
         IN  [i \in 1..(last - first + 1) |->
                 LET rows == { r \in df : r.OrderDate = first + i - 1 }
                 IN  [OrderDate |-> Month(first + i - 1),
                      value |-> SumOver(rows, Column(rows, selected_kpi))]]

\* groupby(pd.Grouper(key="Order Date", freq="M"))[[kpi]].sum().reset_index():
\* one bin per month from the first to the last month of df, empty ones too;
\* no bin for an empty frame.
MonthlySum(df, selected_kpi) ==
    IF df = {} THEN <<>>
    ELSE LET months == { Month(r.OrderDate) : r \in df }
             first == SetMin(months)
             last == SetMax(months)
         IN  [i \in 1..(last - first + 1) |->
                 LET rows == { r \in df : Month(r.OrderDate) = first + i - 1 }
                 IN  [OrderDate |-> first + i - 1,
                      value |-> SumOver(rows, Column(rows, selected_kpi))]]

TimeStep(e) ==
    Assign(e, [df_time |-> MonthlySum(e.df_filtered, e.selected_kpi)])

\* groupby("Product Name")[[kpi]].sum().reset_index()
ProductSum(df, selected_kpi) ==
    { LET rows == { r \in df : r.ProductName = p }
      IN  [ProductName |-> p, value |-> SumOver(rows, Column(rows, selected_kpi))]
      : p \in { r.ProductName : r \in df } }

RECURSIVE SortDescending(_)
\* sort_values(by=kpi, ascending=False); the order among equal sums is not modelled.
SortDescending(groups) ==
    IF groups = {} THEN <<>>
    ELSE LET top == CHOOSE g \in groups : \A h \in groups : ~FLess(g.value, h.value)
         IN  <<top>> \o SortDescending(groups \ {top})

TopN == 10

head(seq, n) == SubSeq(seq, 1, IF Len(seq) < n THEN Len(seq) ELSE n)

Top10Step(e) ==
    Assign(e, [df_top10 |->
        head(SortDescending(ProductSum(e.df_filtered, e.selected_kpi)), TopN)])

\* The state/code columns of the remote reference table.
state_abbr == { [state |-> "New York", code |-> "NY"],
                [state |-> "California", code |-> "CA"] }

\* groupby("State")[[kpi]].sum() left-merged with state_abbr.
GeoSum(df, selected_kpi) ==
    { LET rows == { r \in df : r.State = s }
          hit == { a \in state_abbr : a.state = s }
      IN  [State |-> s, value |-> SumOver(rows, Column(rows, selected_kpi)),
           code |-> IF hit = {} THEN <<>> ELSE <<(CHOOSE a \in hit : TRUE).code>>]
      : s \in { r.State : r \in df } }

GeoStep(e) ==
    Assign(e, [df_geo |-> GeoSum(e.df_filtered, e.selected_kpi)])

VisualizationSection(e) ==
    GeoStep(Top10Step(TimeStep(KpiRadioStep(e))))

\* One run of the script, top to bottom, on the cached dataset and the widget store.
Script(df, session) ==
    VisualizationSection(ComparisonSection(FiltersSection(
        [df_original |-> df, session |-> session, warnings |-> {}])))

(***************************************************************************)
(* State: the st.cache_data entry of load_data, the widget store, and the  *)
(* script's names at the end of the latest run.                            *)
(***************************************************************************)
VARIABLES cache, session, df_original, df_filtered,
          selected_region, selected_state, selected_category,
          selected_subcat, selected_segment,
          min_date, max_date, from_date, to_date,
          date_range_days, past_start_date, past_end_date,
          df_current, df_min_date, df_max_date, df_past,
          past_data_available, kpis, past_kpis, changes,
          selected_kpi, df_time, df_top10, df_geo, warnings

vars == <<cache, session, df_original, df_filtered,
          selected_region, selected_state, selected_category,
          selected_subcat, selected_segment,
          min_date, max_date, from_date, to_date,
          date_range_days, past_start_date, past_end_date,
          df_current, df_min_date, df_max_date, df_past,
          past_data_available, kpis, past_kpis, changes,
          selected_kpi, df_time, df_top10, df_geo, warnings>>

\* First run of a session: load_data misses the cache and reads the workbook;
\* the run leaves its names behind.
Init ==
    \E sheet \in OrdersSheets :
        /\ cache = load_data(sheet, ReturnsSheet)
        /\ \E e \in {Script(load_data(sheet, ReturnsSheet), FreshSession)} :
           /\ session = e.session
           /\ df_original = e.df_original
           /\ df_filtered = e.df_filtered
           /\ selected_region = e.selected_region
           /\ selected_state = e.selected_state
           /\ selected_category = e.selected_category
           /\ selected_subcat = e.selected_subcat
           /\ selected_segment = e.selected_segment
           /\ min_date = e.min_date
           /\ max_date = e.max_date
           /\ from_date = e.from_date
           /\ to_date = e.to_date
           /\ date_range_days = e.date_range_days
           /\ past_start_date = e.past_start_date
           /\ past_end_date = e.past_end_date
           /\ df_current = e.df_current
           /\ df_min_date = e.df_min_date
           /\ df_max_date = e.df_max_date
           /\ df_past = e.df_past
           /\ past_data_available = e.past_data_available
           /\ kpis = e.kpis
           /\ past_kpis = e.past_kpis
           /\ changes = e.changes
           /\ selected_kpi = e.selected_kpi
           /\ df_time = e.df_time
           /\ df_top10 = e.df_top10
           /\ df_geo = e.df_geo
           /\ warnings = e.warnings

\* A rerun: load_data hits the cache; the widgets hold the values in s.
Rerun(s) ==
    \E e \in {Script(cache, s)} :
        /\ cache' = cache
        /\ session' = e.session
        /\ df_original' = e.df_original
        /\ df_filtered' = e.df_filtered
        /\ selected_region' = e.selected_region
        /\ selected_state' = e.selected_state
        /\ selected_category' = e.selected_category
        /\ selected_subcat' = e.selected_subcat
        /\ selected_segment' = e.selected_segment
        /\ min_date' = e.min_date
        /\ max_date' = e.max_date
        /\ from_date' = e.from_date
        /\ to_date' = e.to_date
        /\ date_range_days' = e.date_range_days
        /\ past_start_date' = e.past_start_date
        /\ past_end_date' = e.past_end_date
        /\ df_current' = e.df_current
        /\ df_min_date' = e.df_min_date
        /\ df_max_date' = e.df_max_date
        /\ df_past' = e.df_past
        /\ past_data_available' = e.past_data_available
        /\ kpis' = e.kpis
        /\ past_kpis' = e.past_kpis
        /\ changes' = e.changes
        /\ selected_kpi' = e.selected_kpi
        /\ df_time' = e.df_time
        /\ df_top10' = e.df_top10
        /\ df_geo' = e.df_geo
        /\ warnings' = e.warnings

\* The store with the widget `name` set to the value the user picked.
Picked(name, value) == [session EXCEPT ![name].value = value]

SelectRegion ==
    \E v \in {"All"} \cup session.region.id :
        v # session.region.value /\ Rerun(Picked("region", v))

SelectState ==
    \E v \in {"All"} \cup session.state.id :
        v # session.state.value /\ Rerun(Picked("state", v))

SelectCategory ==
    \E v \in {"All"} \cup session.category.id :
        v # session.category.value /\ Rerun(Picked("category", v))

SelectSubCat ==
    \E v \in {"All"} \cup session.subcat.id :
        v # session.subcat.value /\ Rerun(Picked("subcat", v))

SelectSegment ==
    \E v \in {"All"} \cup session.segment.id :
        v # session.segment.value /\ Rerun(Picked("segment", v))

\* date_input lets the user pick any day from min_value to max_value.
SelectFromDate ==
    \E d \in session.from.id[1]..session.from.id[2] :
        d # session.from.value /\ Rerun(Picked("from", d))

SelectToDate ==
    \E d \in session.to.id[1]..session.to.id[2] :
        d # session.to.value /\ Rerun(Picked("to", d))

SelectKpi ==
    \E k \in session.kpi.id :
        k # session.kpi.value /\ Rerun(Picked("kpi", k))

Next ==
    \/ SelectRegion
    \/ SelectState
    \/ SelectCategory
    \/ SelectSubCat
    \/ SelectSegment
    \/ SelectFromDate
    \/ SelectToDate
    \/ SelectKpi

Spec == Init /\ [][Next]_vars

(***************************************************************************)
(* Properties                                                              *)
(***************************************************************************)
\* The values the widgets returned in the latest run.
Selected ==
    [region |-> selected_region, state |-> selected_state,
     category |-> selected_category, subcat |-> selected_subcat,
     segment |-> selected_segment,
     from |-> session.from.value, to |-> session.to.value]

\* The rows of the loaded dataset that pass the five categorical selections.
Restricted == CategoricalFilters(df_original, Selected)

PastWindowInvalid ==
    past_start_date < df_min_date \/ past_end_date > df_max_date

\* C1: for a selected range with from <= to, no calendar day lies both in the
\* past window [past_start_date, past_end_date] and in the current window
\* [from_date, to_date].
C1_PastWindowDisjoint ==
    from_date <= to_date =>
        (past_start_date..past_end_date) \cap (from_date..to_date) = {}

\* C2: whenever the five categorical filters and the (auto-corrected) date
\* range together leave no row of the loaded dataset, the frame the filter
\* stage hands on is the whole loaded dataset and the fallback warning shows.
C2_EmptyResultFallsBackToFull ==
    DateFilter(Restricted, from_date, to_date) = {} =>
        /\ df_filtered = df_original
        /\ (WarnShowFull \in warnings \/ WarnResetFull \in warnings)

\* C2 witness: a categorical selection that leaves rows, none of them inside
\* the selected date range.
C2_Witness ==
    /\ selected_region # "All"
    /\ Restricted # {}
    /\ Restricted # df_original
    /\ DateFilter(Restricted, from_date, to_date) = {}
    /\ df_filtered = df_original

\* C3: whenever the past window is invalid, the past frame is empty, the six
\* past KPIs are 0, the six changes are 0 and the no-past-data warning shows.
C3_InvalidPastWindowZeroes ==
    PastWindowInvalid =>
        /\ df_past = {}
        /\ past_kpis = ZeroKpis
        /\ \A k \in KpiNames : changes[k] = Zero
        /\ WarnNoPast \in warnings

\* C3 witness: an invalid past window while the current period has sales and
\* the loaded dataset has an order on the day the window ends.
C3_Witness ==
    /\ PastWindowInvalid
    /\ kpis.total_sales # Zero
    /\ DateFilter(Restricted, past_start_date, past_end_date) # {}

\* C4: the current frame and the past frame are the loaded dataset under the
\* same five categorical selections, each cut to its own date window.
C4_SameRestrictionsBothPeriods ==
    /\ df_current = DateFilter(Restricted, from_date, to_date)
    /\ df_past = IF PastWindowInvalid THEN {}
                 ELSE DateFilter(Restricted, past_start_date, past_end_date)

AllCriteria ==
    LET days == { r.OrderDate : r \in OrdersPool }
    IN  [region   : {"All"} \cup { r.Region : r \in OrdersPool },
         state    : {"All"} \cup { r.State : r \in OrdersPool },
         category : {"All"} \cup { r.Category : r \in OrdersPool },
         subcat   : {"All"} \cup { r.SubCategory : r \in OrdersPool },
         segment  : {"All"} \cup { r.Segment : r \in OrdersPool },
         from     : SetMin(days)..SetMax(days),
         to       : SetMin(days)..SetMax(days)]

\* The run with every widget at its default.
DefaultRun ==
    /\ Selected = [region |-> "All", state |-> "All", category |-> "All",
                   subcat |-> "All", segment |-> "All",
                   from |-> df_min_date, to |-> df_max_date]
    /\ selected_kpi = "Sales"

\* C6: the frame the filter stage hands on is a fixed point of the filter
\* stage under the same criteria, for the criteria of every run and, on every
\* loaded dataset, for every criteria over the workbook's values (those no
\* widget offers included).
C6_FilterIdempotent ==
    /\ FilterStage(df_original, Selected) = df_filtered
    /\ FilterStage(df_filtered, Selected) = df_filtered
    /\ DefaultRun =>
         \A c \in AllCriteria :
            FilterStage(FilterStage(df_original, c), c) = FilterStage(df_original, c)

\* C6 witness: an inverted date pair under a category selection that narrows
\* the dataset to rows on more than one day.
C6_Witness ==
    /\ session.from.value > session.to.value
    /\ selected_category # "All"
    /\ df_filtered # df_original
    /\ Cardinality({ r.OrderDate : r \in df_filtered }) > 1

\* C7: no run changes the cached dataset, and every run ends with
\* df_original holding exactly the cached rows.
C7_DatasetNeverModified ==
    [][cache' = cache /\ df_original' = cache]_vars

\* C7 witness: a run under a region selection whose result is a proper
\* subset of the dataset, the dataset itself still whole.
C7_Witness ==
    /\ selected_region # "All"
    /\ df_filtered # df_original
    /\ df_filtered # {}
    /\ df_original = cache

\* What the claim C8 says of the KPI tuple k computed over the frame df.
KpisAsClaimed(df, k) ==
    IF df = {} THEN \A n \in KpiNames : k[n] = Zero
    ELSE LET orders == Cardinality({ r.OrderID : r \in df })
             sales == SumOver(df, [r \in df |-> Num(r.Sales)])
         IN  /\ k.total_orders = Num(orders)
             /\ k.total_sales = sales
             /\ k.avg_order_value = Frac(sales[1], sales[2] * orders)

\* C8: over a non-empty frame total_orders is the number of distinct order
\* identifiers, total_sales the sum of Sales over all rows and
\* avg_order_value their quotient; over the empty frame all six KPIs are 0.
\* Stated of both frames compute_kpis is called on.
C8_DistinctOrdersAllSales ==
    /\ KpisAsClaimed(df_current, kpis)
    /\ KpisAsClaimed(df_past, past_kpis)

\* C8 witness: the current frame holds two line items of one order.
C8_Witness ==
    /\ \E r1, r2 \in df_current : r1 # r2 /\ r1.OrderID = r2.OrderID
    /\ kpis.total_orders = Num(1)
    /\ kpis.total_sales = Num(150)

\* C9: the monthly series is strictly ascending in its month (so no month
\* twice), has a bin for the month of every row of the filtered frame, and
\* every bin holds the sum of the chosen metric over that month's rows.
C9_MonthlySeries ==
    /\ \A i, j \in DOMAIN df_time :
          i < j => df_time[i].OrderDate < df_time[j].OrderDate
    /\ \A r \in df_filtered :
          \E i \in DOMAIN df_time : df_time[i].OrderDate = Month(r.OrderDate)
    /\ \A i \in DOMAIN df_time :
          LET rows == { r \in df_filtered : Month(r.OrderDate) = df_time[i].OrderDate }
          IN  df_time[i].value = SumOver(rows, Column(rows, selected_kpi))

\* C9 witness: under a region selection, a margin-rate series of three months
\* whose middle month has no order.
C9_Witness ==
    /\ Len(df_time) >= 3
    /\ df_time[2].value = Zero
    /\ df_time[1].value # Zero
    /\ df_time[3].value # Zero
    /\ selected_kpi = "Margin Rate"
    /\ selected_region # "All"
    /\ df_filtered # df_original

\* C10: the frame the current KPIs are computed over is the frame the three
\* views are computed over.
C10_KpisAndViewsSameRows ==
    df_current = df_filtered

=============================================================================
